---- MODULE Spec2Model ----
(***************************************************************************)
(* ProofSnap: the verification pipeline (lib/pipeline.ts), the clients it  *)
(* calls (crypto, blockchain, ai-detection, watermark, supabase, db) and   *)
(* the MediaProof ledger contract.                                         *)
(*                                                                         *)
(* Numbers: a probability-like score (deepfake, AI-generated) is kept in   *)
(* thousandths, so 0.7 is 700; a plagiarism score is a percentage.         *)
(* Wall-clock fields (timestamp, createdAt, updatedAt) and the static      *)
(* display fields (fileName, fileSize, deviceInfo, location, step labels)  *)
(* are left out of the record: no stage reads them.                        *)
(***************************************************************************)
EXTENDS Integers, Sequences, FiniteSets, TLC

(* ---------------------------- bounds ----------------------------------- *)
MaxBlock == 3

\* the pipeline runs of the model
Runs == {1}
\* Date.now().toString(36) + six random characters
RecordIds == {"mb3k2x9q4z7a"}

(* ------------------------- value domains ------------------------------- *)
NULL == "null"
NoBlock == -1
NoDetail == "undefined"

Files == {"f1"}
FileTypes == {"image", "video"}

ZeroHash == "00"
ZeroAddress == "0x0"
DeviceWallet == "0xwallet"
OtherSender == "0xother"

VARIABLES
    pc,             \* position of each run in runVerificationPipeline
    steps,          \* the run's local `steps`
    observed,       \* the last list handed to onProgress by the run
    record,         \* the run's in-memory `record`
    loc,            \* the run's other locals
    anchorCause,    \* what happened inside the run's anchorProof call
    caught,         \* the `error` bound by the pipeline's catch clause
    outcome,        \* how the run's promise settled
    db,             \* media_records: id -> row
    cloud,          \* Supabase table proofs: id -> row
    secureStore,    \* the device key pair in SecureStore
    proofs,         \* MediaProof.proofs
    proofHashes,    \* MediaProof.proofHashes
    blockNumber,    \* height of the chain
    lastTx,         \* the latest call of MediaProof.anchorProof and its fate
    libCall,        \* a call made to a library function on its own:
                    \* its arguments and, once it returned, its result
    currentVerification,  \* the store's currentVerification
    gallery,        \* the bytes of each photo of the device's media library
    scannedImages,  \* scanned_images: assetId -> row
    scanner         \* position and locals of each call of the gallery scanner

vars == <<pc, steps, observed, record, loc, anchorCause, caught, outcome,
          db, cloud, secureStore, proofs, proofHashes, blockNumber, lastTx,
          libCall, currentVerification, gallery, scannedImages, scanner>>

runVars == <<pc, steps, observed, record, loc, anchorCause, caught, outcome>>
ledgerVars == <<proofs, proofHashes, blockNumber, lastTx>>
scanVars == <<gallery, scannedImages, scanner>>

(* --------------------------- crypto.ts --------------------------------- *)
\* SHA-256 of the file's bytes, hex encoded: one digest per file content.
Digest(uri) == "sha256:" \o uri

\* the digests the ledger is called with: those of the files, and one of a
\* file of another device
Digests == {Digest(f) : f \in Files} \cup {"sha256:other"}

\* Ed25519 signature of the digest bytes under the private key.
Ed25519Sign(dataHex, privateKeyHex) == privateKeyHex \o ":" \o dataHex

NoKeys == [privateKey |-> NULL, publicKey |-> NULL]
DeviceKeys == [privateKey |-> "sk", publicKey |-> "pk"]

(* ------------------------- pipeline.ts --------------------------------- *)
StepIds == <<"hash", "sign", "blockchain", "ai", "plagiarism", "trust",
             "watermark", "cloud">>

createSteps ==
    [i \in 1..8 |-> [id |-> StepIds[i], status |-> "waiting", detail |-> NoDetail]]

\* updateStep without the test on the step id
updateStepEveryStep(s, stepId, status, detail) ==
    [i \in DOMAIN s |-> [s[i] EXCEPT !.status = status, !.detail = detail]]

\* updateStep applied to a fresh list instead of the current one
updateStepFromFresh(s, stepId, status, detail) ==
    [i \in DOMAIN s |->
        IF s[i].id = stepId
        THEN [s[i] EXCEPT !.status = status, !.detail = detail]
        ELSE createSteps[i]]

\* updateStep that gives the status to the step after stepId too
updateStepAndTheNext(s, stepId, status, detail) ==
    [i \in DOMAIN s |->
        IF s[i].id = stepId \/ (i > 1 /\ s[i - 1].id = stepId)
        THEN [s[i] EXCEPT !.status = status, !.detail = detail]
        ELSE s[i]]

updateStep(s, stepId, status, detail) ==
    [i \in DOMAIN s |->
        IF s[i].id = stepId
        THEN [s[i] EXCEPT !.status = status, !.detail = detail]
        ELSE s[i]]

\* an initial record that is verified from the start
InitialRecordVerified(id, uri, type) ==
    [id |-> id, fileUri |-> uri, fileType |-> type,
     fileHash |-> "", signature |-> "", publicKey |-> "",
     blockchainTx |-> NULL, blockNumber |-> NoBlock,
     aiDeepfakeScore |-> 0, aiGeneratedScore |-> 0, plagiarismScore |-> 0,
     trustScore |-> 0, trustGrade |-> "F",
     watermarkedUri |-> NULL, imageUrl |-> NULL,
     status |-> "verified"]

InitialRecord(id, uri, type) ==
    [id |-> id, fileUri |-> uri, fileType |-> type,
     fileHash |-> "", signature |-> "", publicKey |-> "",
     blockchainTx |-> NULL, blockNumber |-> NoBlock,
     aiDeepfakeScore |-> 0, aiGeneratedScore |-> 0, plagiarismScore |-> 0,
     trustScore |-> 0, trustGrade |-> "F",
     watermarkedUri |-> NULL, imageUrl |-> NULL,
     status |-> "verifying"]

\* a run that has not been started has no record
NoRecord == [status |-> "none"]

NoBcResult == [txHash |-> NULL, blockNumber |-> NoBlock]
NoAiResult == [deepfakeScore |-> 0, aiGeneratedScore |-> 0, isGenuine |-> FALSE,
               simulated |-> FALSE]
NoPlagiarismResult == [isOriginal |-> FALSE, matchPercentage |-> 0, simulated |-> FALSE]
NoTrustResult == [score |-> 0, grade |-> "F"]

NoLocals ==
    [imageBase64 |-> "", bcResult |-> NoBcResult, bcError |-> NULL,
     aiResult |-> NoAiResult, plagiarismResult |-> NoPlagiarismResult,
     trustResult |-> NoTrustResult, cloudSynced |-> FALSE]

(* ------------------------- the store (zustand) ------------------------ *)
\* currentVerification: null
NullVerification ==
    [present |-> FALSE, steps |-> <<>>, isRunning |-> FALSE, result |-> NoRecord]

\* the value startVerification sets before it calls the pipeline
FreshVerification ==
    [present |-> TRUE, steps |-> <<>>, isRunning |-> TRUE, result |-> NoRecord]

\* the onProgress callback startVerification hands to the pipeline
onProgress(cv, s) == IF cv.present THEN [cv EXCEPT !.steps = s] ELSE cv

(* --------------------------- the gallery scanner ----------------------- *)
\* the photos of the media library, and what their bytes can be
Assets == {"asset-1", "asset-2"}

\* getAssetsAsync: the photos by creation time
AssetList == <<"asset-1", "asset-2">>
Contents == {"bytes-1", "bytes-2"}

\* the calls of scanGalleryForNewImages and reverifyImage that can overlap
ScanCalls == {"call-1", "call-2"}

NoScannedImages == [a \in {} |-> [assetId |-> a]]

NoScannedImage == [assetId |-> NULL]

\* a call that has not been made
NoScan ==
    [fn |-> "none", pc |-> "idle", assets |-> <<>>, i |-> 0, hash |-> "",
     existing |-> NoScannedImage]

(* ------------------------------ db.ts ---------------------------------- *)
\* an insert that never reaches the table
insertMediaRecordLost(table, rec) == table

\* INSERT OR IGNORE: an insert that keeps the row the table already holds
insertMediaRecordIgnore(table, rec) ==
    IF rec.id \in DOMAIN table THEN table
    ELSE [i \in DOMAIN table \cup {rec.id} |-> IF i = rec.id THEN rec ELSE table[i]]

\* INSERT OR REPLACE INTO media_records
insertMediaRecord(table, rec) ==
    [i \in DOMAIN table \cup {rec.id} |-> IF i = rec.id THEN rec ELSE table[i]]

\* UPDATE media_records SET <every key of updates but id> WHERE id = ?
updateMediaRecord(table, id, updates) ==
    [i \in DOMAIN table |->
        IF i = id
        THEN [f \in DOMAIN table[i] |->
                 IF f # "id" /\ f \in DOMAIN updates THEN updates[f] ELSE table[i][f]]
        ELSE table[i]]

\* DELETE FROM media_records WHERE id = ?
deleteRecord(table, id) == [i \in DOMAIN table \ {id} |-> table[i]]

(* ------------------------------ Init ----------------------------------- *)
EmptyProof ==
    [fileHash |-> ZeroHash, signature |-> "", publicKey |-> "",
     submitter |-> ZeroAddress, timestamp |-> 0, blockNumber |-> 0]

NoTx == [fileHash |-> ZeroHash, revert |-> NULL]

EmptyTable == [i \in {} |-> NoRecord]

\* no call of a library function on its own is in progress
NoCall == [fn |-> "none", done |-> FALSE]

\* the application after construction: no run started, empty tables, no key
\* pair, an empty ledger
PipelineInit ==
    /\ pc = [r \in Runs |-> "idle"]
    /\ steps = [r \in Runs |-> <<>>]
    /\ observed = [r \in Runs |-> <<>>]
    /\ record = [r \in Runs |-> NoRecord]
    /\ loc = [r \in Runs |-> NoLocals]
    /\ anchorCause = [r \in Runs |-> "none"]
    /\ caught = [r \in Runs |-> NULL]
    /\ outcome = [r \in Runs |-> [kind |-> "pending", error |-> NULL]]
    /\ db = EmptyTable
    /\ cloud = EmptyTable
    /\ secureStore = NoKeys
    /\ proofs = [h \in Digests \cup {ZeroHash} |-> EmptyProof]
    /\ proofHashes = <<>>
    /\ blockNumber = 1
    /\ lastTx = NoTx

\* the store after create(): no verification is shown
StoreInit == currentVerification = NullVerification

\* the scanner after construction: an empty table, no call in progress, and
\* a media library whose photos are as they were taken
ScanInit ==
    /\ gallery = [a \in Assets |-> "bytes-1"]
    /\ scannedImages = NoScannedImages
    /\ scanner = [c \in ScanCalls |-> NoScan]

Init ==
    /\ PipelineInit
    /\ libCall = NoCall
    /\ StoreInit
    /\ ScanInit

(* ------------------- runVerificationPipeline --------------------------- *)
\* lines 44-85: createSteps, the record id, the initial record; the call of
\* insertMediaRecord is pending
Start(r) ==
    /\ pc[r] = "idle"
    /\ \E id \in RecordIds, uri \in Files, type \in FileTypes :
          /\ steps' = [steps EXCEPT ![r] = createSteps]
          /\ record' = [record EXCEPT ![r] = InitialRecord(id, uri, type)]
    /\ pc' = [pc EXCEPT ![r] = "insert"]
    /\ UNCHANGED <<observed, loc, anchorCause, caught, outcome, db, cloud,
                   secureStore, ledgerVars>>
    /\ UNCHANGED <<libCall, currentVerification, scanVars>>

\* line 85 settles; on success lines 89-91 run up to the call of hashMediaFile
InsertDone(r) ==
    /\ pc[r] = "insert"
    /\ \/ /\ db' = insertMediaRecord(db, record[r])
          /\ steps' = [steps EXCEPT ![r] = updateStep(steps[r], "hash", "running", NoDetail)]
          /\ observed' = [observed EXCEPT ![r] = steps'[r]]
          /\ currentVerification' = onProgress(currentVerification, steps'[r])
          /\ pc' = [pc EXCEPT ![r] = "hash"]
          /\ UNCHANGED outcome
       \/ \* the write rejects: line 85 is outside the try block
          /\ outcome' = [outcome EXCEPT ![r] = [kind |-> "threw", error |-> "DbError"]]
          /\ pc' = [pc EXCEPT ![r] = "done"]
          /\ UNCHANGED <<db, steps, observed, currentVerification>>
    /\ UNCHANGED <<record, loc, anchorCause, caught, cloud, secureStore,
                   ledgerVars>>
    /\ UNCHANGED <<libCall, scanVars>>

(* --------------------- Colors.ts, trust-score.ts ----------------------- *)
\* getGrade with the limits compared by > instead of >=
getGradeExclusive(score) ==
    IF score > 95 THEN "S"
    ELSE IF score > 80 THEN "A"
    ELSE IF score > 60 THEN "B"
    ELSE IF score > 40 THEN "C"
    ELSE "F"

getGrade(score) ==
    IF score >= 95 THEN "S"
    ELSE IF score >= 80 THEN "A"
    ELSE IF score >= 60 THEN "B"
    ELSE IF score >= 40 THEN "C"
    ELSE "F"

Min(a, b) == IF a < b THEN a ELSE b
Max(a, b) == IF a > b THEN a ELSE b

\* Math.round of a value that is already an integer
MathRound(x) == x

\* computeTrustScore with the tier limits compared by >= instead of >
computeTrustScoreInclusive(factors) ==
    LET s0 == 100
        s1 == IF ~factors.hashVerified THEN s0 - 50 ELSE s0
        s2 == IF ~factors.signatureValid THEN s1 - 30 ELSE s1
        s3 == IF ~factors.blockchainAnchored THEN s2 - 10 ELSE s2
        s4 == IF factors.deepfakeScore >= 700 THEN s3 - 40
              ELSE IF factors.deepfakeScore >= 400 THEN s3 - 20
              ELSE IF factors.deepfakeScore >= 200 THEN s3 - 5
              ELSE s3
        s5 == IF factors.aiGeneratedScore >= 700 THEN s4 - 30
              ELSE IF factors.aiGeneratedScore >= 400 THEN s4 - 15
              ELSE IF factors.aiGeneratedScore >= 200 THEN s4 - 3
              ELSE s4
        s6 == IF factors.plagiarismScore >= 50 THEN s5 - 20
              ELSE IF factors.plagiarismScore >= 30 THEN s5 - 10
              ELSE s5
        s7 == IF factors.hasMetadata THEN Min(100, s6 + 2) ELSE s6
        score == Max(0, Min(100, s7))
    IN  [score |-> MathRound(score), grade |-> getGrade(score)]

\* computeTrustScore with the penalties of the two upper deepfake tiers and of
\* the two plagiarism tiers exchanged
computeTrustScoreTiersSwapped(factors) ==
    LET s0 == 100
        s1 == IF ~factors.hashVerified THEN s0 - 50 ELSE s0
        s2 == IF ~factors.signatureValid THEN s1 - 30 ELSE s1
        s3 == IF ~factors.blockchainAnchored THEN s2 - 10 ELSE s2
        s4 == IF factors.deepfakeScore > 700 THEN s3 - 20
              ELSE IF factors.deepfakeScore > 400 THEN s3 - 40
              ELSE IF factors.deepfakeScore > 200 THEN s3 - 5
              ELSE s3
        s5 == IF factors.aiGeneratedScore > 700 THEN s4 - 30
              ELSE IF factors.aiGeneratedScore > 400 THEN s4 - 15
              ELSE IF factors.aiGeneratedScore > 200 THEN s4 - 3
              ELSE s4
        s6 == IF factors.plagiarismScore > 50 THEN s5 - 10
              ELSE IF factors.plagiarismScore > 30 THEN s5 - 20
              ELSE s5
        s7 == IF factors.hasMetadata THEN Min(100, s6 + 2) ELSE s6
        score == Max(0, Min(100, s7))
    IN  [score |-> MathRound(score), grade |-> getGrade(score)]

\* the penalties are applied in the order of the code; scores in thousandths
computeTrustScore(factors) ==
    LET s0 == 100
        s1 == IF ~factors.hashVerified THEN s0 - 50 ELSE s0
        s2 == IF ~factors.signatureValid THEN s1 - 30 ELSE s1
        s3 == IF ~factors.blockchainAnchored THEN s2 - 10 ELSE s2
        s4 == IF factors.deepfakeScore > 700 THEN s3 - 40
              ELSE IF factors.deepfakeScore > 400 THEN s3 - 20
              ELSE IF factors.deepfakeScore > 200 THEN s3 - 5
              ELSE s3
        s5 == IF factors.aiGeneratedScore > 700 THEN s4 - 30
              ELSE IF factors.aiGeneratedScore > 400 THEN s4 - 15
              ELSE IF factors.aiGeneratedScore > 200 THEN s4 - 3
              ELSE s4
        s6 == IF factors.plagiarismScore > 50 THEN s5 - 20
              ELSE IF factors.plagiarismScore > 30 THEN s5 - 10
              ELSE s5
        s7 == IF factors.hasMetadata THEN Min(100, s6 + 2) ELSE s6
        score == Max(0, Min(100, s7))
    IN  [score |-> MathRound(score), grade |-> getGrade(score)]

(* ---------------------------- ai-detection.ts -------------------------- *)
\* Math.round(x * 100) / 100 on a score in thousandths
Round2(t) == ((t + 5) \div 10) * 10

\* scores a server reports, in thousandths
RawScores == {120, 296, 750}
\* Math.random() * 0.15 and Math.random() * 0.1, in thousandths
SimDeepfakeRaw == {147}
SimGeneratedRaw == {96}
\* Math.floor(Math.random() * 5)
SimMatch == {4}
\* plagiarismScore values a server reports
PlagiarismScores == {3, 45}

NoResponse(kind) ==
    [kind |-> kind, status |-> 0, body |-> "none", deepfake |-> 0, aiGenerated |-> 0,
     simulated |-> FALSE]

\* how /api/detect can answer: the 30 s timeout, a transport error, an error
\* status, a body that does not parse, a 2xx JSON answer
AiResponses ==
    {NoResponse("timeout"), NoResponse("error"),
     [NoResponse("http") EXCEPT !.status = 500, !.body = "json"],
     [NoResponse("http") EXCEPT !.status = 200, !.body = "garbage"]}
    \cup {[kind |-> "http", status |-> 200, body |-> "json", deepfake |-> d,
           aiGenerated |-> g, simulated |-> sim] :
             d \in RawScores, g \in RawScores, sim \in BOOLEAN}

simulateAIDetection(d, g) ==
    [deepfakeScore |-> Round2(d), aiGeneratedScore |-> Round2(g),
     isGenuine |-> TRUE, simulated |-> TRUE]

\* detectDeepfake without the test of the response status
detectDeepfakeNoStatusCheck(imageBase64, resp, d, g) ==
    IF imageBase64 = "" THEN simulateAIDetection(d, g)
    ELSE IF resp.kind = "http" /\ resp.body = "json"
    THEN [deepfakeScore |-> Round2(resp.deepfake),
          aiGeneratedScore |-> Round2(resp.aiGenerated),
          isGenuine |-> resp.deepfake < 300 /\ resp.aiGenerated < 300,
          simulated |-> resp.simulated = TRUE]
    ELSE simulateAIDetection(d, g)

detectDeepfake(imageBase64, resp, d, g) ==
    IF imageBase64 = "" THEN simulateAIDetection(d, g)
    ELSE IF resp.kind = "http" /\ resp.status >= 200 /\ resp.status < 300
            /\ resp.body = "json"
    THEN [deepfakeScore |-> Round2(resp.deepfake),
          aiGeneratedScore |-> Round2(resp.aiGenerated),
          isGenuine |-> resp.deepfake < 300 /\ resp.aiGenerated < 300,
          simulated |-> resp.simulated = TRUE]
    ELSE simulateAIDetection(d, g)

NoPlagiarismResponse(kind) ==
    [kind |-> kind, status |-> 0, body |-> "none", isOriginal |-> "absent",
     plagiarismScore |-> 0, simulated |-> FALSE]

PlagiarismResponses ==
    {NoPlagiarismResponse("timeout"), NoPlagiarismResponse("error"),
     [NoPlagiarismResponse("http") EXCEPT !.status = 500, !.body = "json"],
     [NoPlagiarismResponse("http") EXCEPT !.status = 200, !.body = "garbage"]}
    \cup {[kind |-> "http", status |-> 200, body |-> "json", isOriginal |-> o,
           plagiarismScore |-> m, simulated |-> sim] :
             o \in {"absent", "true", "false"}, m \in PlagiarismScores,
             sim \in BOOLEAN}

simulatePlagiarism(m) ==
    [isOriginal |-> TRUE, matchPercentage |-> m, simulated |-> TRUE]

checkPlagiarism(imageBase64, resp, m) ==
    IF imageBase64 = "" THEN simulatePlagiarism(m)
    ELSE IF resp.kind = "http" /\ resp.status >= 200 /\ resp.status < 300
            /\ resp.body = "json"
    THEN [isOriginal |-> IF resp.isOriginal = "absent" THEN TRUE
                         ELSE resp.isOriginal = "true",
          matchPercentage |-> resp.plagiarismScore,
          simulated |-> resp.simulated = TRUE]
    ELSE simulatePlagiarism(m)

(* ----------------------------- watermark.ts ---------------------------- *)
\* applyVisibleWatermark giving null when copying fails
applyVisibleWatermarkNullOnFailure(imageUri, trustScore, trustGrade, copied) ==
    IF copied THEN "watermarked/wm_" \o trustGrade \o "_" \o imageUri ELSE NULL

\* the copy in the watermarked directory, or the original when copying fails
applyVisibleWatermark(imageUri, trustScore, trustGrade, copied) ==
    IF copied THEN "watermarked/wm_" \o trustGrade \o "_" \o imageUri ELSE imageUri

WatermarkIds == {"PS-1"}

(* ------------------------------ supabase.ts ---------------------------- *)
\* SUPABASE_URL and SUPABASE_ANON_KEY of constants/config.ts pass the test
isSupabaseConfigured == TRUE

\* a proof row that is uploaded as verified
SupabaseProofVerified(rec) ==
    [id |-> rec.id, file_hash |-> rec.fileHash, signature |-> rec.signature,
     public_key |-> rec.publicKey, blockchain_tx |-> rec.blockchainTx,
     block_number |-> rec.blockNumber, ai_deepfake_score |-> rec.aiDeepfakeScore,
     ai_generated_score |-> rec.aiGeneratedScore,
     plagiarism_score |-> rec.plagiarismScore, trust_score |-> rec.trustScore,
     trust_grade |-> rec.trustGrade, file_type |-> rec.fileType,
     image_url |-> rec.imageUrl, status |-> "verified"]

SupabaseProof(rec) ==
    [id |-> rec.id, file_hash |-> rec.fileHash, signature |-> rec.signature,
     public_key |-> rec.publicKey, blockchain_tx |-> rec.blockchainTx,
     block_number |-> rec.blockNumber, ai_deepfake_score |-> rec.aiDeepfakeScore,
     ai_generated_score |-> rec.aiGeneratedScore,
     plagiarism_score |-> rec.plagiarismScore, trust_score |-> rec.trustScore,
     trust_grade |-> rec.trustGrade, file_type |-> rec.fileType,
     image_url |-> rec.imageUrl, status |-> rec.status]

\* env: "ok", "error" (the insert answers with an error), "throw"; an insert
\* of an id the table already holds is a primary-key error
uploadProofToSupabase(rec, env) ==
    IF ~isSupabaseConfigured THEN [synced |-> FALSE, cloud |-> cloud]
    ELSE IF env = "ok" /\ rec.id \notin DOMAIN cloud
    THEN [synced |-> TRUE,
          cloud |-> [i \in DOMAIN cloud \cup {rec.id} |->
                        IF i = rec.id THEN SupabaseProof(rec) ELSE cloud[i]]]
    ELSE [synced |-> FALSE, cloud |-> cloud]

\* the public URL of the uploaded thumbnail, or null
uploadThumbnailToStorage(recordId, base64Data, uploaded) ==
    IF ~isSupabaseConfigured THEN NULL
    ELSE IF uploaded THEN "media/thumbnails/" \o recordId \o ".jpg"
    ELSE NULL

(* ---------------------- MediaProof.sol -------------------------------- *)
\* block.timestamp of block b: positive and increasing with the height
BlockTimestamp(b) == 1000 + b

\* anchorProof without the "Proof already exists" requirement
ContractAnchorProofNoExistsCheck(fileHash, signature, publicKey, sender) ==
    IF fileHash = ZeroHash
    THEN [revert |-> "Invalid file hash", proofs |-> proofs, proofHashes |-> proofHashes]
    ELSE [revert |-> NULL,
          proofs |-> [proofs EXCEPT ![fileHash] =
                        [fileHash |-> fileHash, signature |-> signature,
                         publicKey |-> publicKey, submitter |-> sender,
                         timestamp |-> BlockTimestamp(blockNumber + 1),
                         blockNumber |-> blockNumber + 1]],
          proofHashes |-> Append(proofHashes, fileHash)]

\* function anchorProof: the state after the call, and the revert reason
\* (NULL when the call went through); the transaction is mined in the next block
ContractAnchorProof(fileHash, signature, publicKey, sender) ==
    IF fileHash = ZeroHash
    THEN [revert |-> "Invalid file hash", proofs |-> proofs, proofHashes |-> proofHashes]
    ELSE IF proofs[fileHash].timestamp # 0
    THEN [revert |-> "Proof already exists", proofs |-> proofs, proofHashes |-> proofHashes]
    ELSE [revert |-> NULL,
          proofs |-> [proofs EXCEPT ![fileHash] =
                        [fileHash |-> fileHash, signature |-> signature,
                         publicKey |-> publicKey, submitter |-> sender,
                         timestamp |-> BlockTimestamp(blockNumber + 1),
                         blockNumber |-> blockNumber + 1]],
          proofHashes |-> Append(proofHashes, fileHash)]

proofExists(fileHash) == proofs[fileHash].timestamp # 0

getProofCount == Len(proofHashes)

\* a transaction sent to the contract by any account
SendAnchorProof(fileHash, signature, publicKey, sender) ==
    LET call == ContractAnchorProof(fileHash, signature, publicKey, sender) IN
    /\ call.revert = NULL => blockNumber < MaxBlock
    /\ proofs' = call.proofs
    /\ proofHashes' = call.proofHashes
    /\ blockNumber' = IF call.revert = NULL THEN blockNumber + 1 ELSE blockNumber
    /\ lastTx' = [fileHash |-> fileHash, revert |-> call.revert]

\* another account (another device, the same file) calls the contract
OtherAnchorProof ==
    /\ \E h \in Digests \cup {ZeroHash} :
          SendAnchorProof(h, "sigX", "pkX", OtherSender)
    /\ UNCHANGED <<runVars, db, cloud, secureStore>>
    /\ UNCHANGED <<libCall, currentVerification, scanVars>>

(* -------------------------- blockchain.ts ------------------------------ *)
\* '0x' + hex, zero-padded to 32 bytes: the empty string pads to the zero hash
toBytes32(fileHash) == IF fileHash = "" THEN ZeroHash ELSE fileHash

TxHash(fileHash) == "tx:" \o fileHash

FaucetMessage == "Insufficient MOCK tokens for gas"

\* the test of the catch clause on the error message (lines 141-145)
IsInsufficientFunds(msg) == msg = "insufficient funds"

\* what the provider does with the transaction
AnchorEnvs == {"mined", "network error", "insufficient funds", "wait failed"}

\* the error raised inside the try block of anchorProof (NULL: none) for the
\* padded hash under this behaviour of the provider
AnchorInnerError(paddedHash, edSignature, edPublicKey, env) ==
    LET call == ContractAnchorProof(paddedHash, edSignature, edPublicKey, DeviceWallet) IN
    IF env \in {"network error", "insufficient funds"} THEN env
    ELSE IF call.revert # NULL THEN "execution reverted: " \o call.revert
    ELSE IF env = "wait failed" THEN env
    ELSE NULL

\* anchorProof (CONTRACT_ADDRESS is set, so the contract branch is taken):
\* kind is "value", "null" or "throw"
anchorProof(fileHash, edSignature, edPublicKey, env) ==
    LET paddedHash == toBytes32(fileHash)
        inner == AnchorInnerError(paddedHash, edSignature, edPublicKey, env)
    IN  IF inner = NULL
        THEN [kind |-> "value",
              value |-> [txHash |-> TxHash(paddedHash), blockNumber |-> blockNumber + 1],
              message |-> NULL, inner |-> inner]
        ELSE IF IsInsufficientFunds(inner)
        THEN [kind |-> "throw", value |-> NoBcResult, message |-> FaucetMessage,
              inner |-> inner]
        ELSE [kind |-> "null", value |-> NoBcResult, message |-> NULL, inner |-> inner]

\* whether the transaction of the call reaches the contract
AnchorSends(env) == env \in {"mined", "wait failed"}

(* --------------------------- crypto.ts (calls) ------------------------- *)
\* generateKeyPair, the onboarding action
GenerateKeyPair ==
    /\ secureStore' = DeviceKeys
    /\ UNCHANGED <<runVars, db, cloud, ledgerVars>>
    /\ UNCHANGED <<libCall, currentVerification, scanVars>>

(* ------------------- runVerificationPipeline (stages) ------------------ *)
\* a catch clause that marks the running step as failed and reports it
CatchMarksRunningError(r, error) ==
    /\ caught' = [caught EXCEPT ![r] = error]
    /\ record' = [record EXCEPT ![r].status = "failed"]
    /\ pc' = [pc EXCEPT ![r] = "failWrite"]
    /\ steps' = [steps EXCEPT ![r] =
                    [i \in DOMAIN steps[r] |->
                        IF steps[r][i].status = "running"
                        THEN [steps[r][i] EXCEPT !.status = "error", !.detail = error]
                        ELSE steps[r][i]]]
    /\ observed' = [observed EXCEPT ![r] = steps'[r]]
    /\ currentVerification' = onProgress(currentVerification, steps'[r])

\* lines 255-259 up to the pending write of the failed status: the catch
\* clause touches neither steps nor the observer
Catch(r, error) ==
    /\ caught' = [caught EXCEPT ![r] = error]
    /\ record' = [record EXCEPT ![r].status = "failed"]
    /\ pc' = [pc EXCEPT ![r] = "failWrite"]
    /\ UNCHANGED <<steps, observed, currentVerification>>

\* steps = updateStep(...); onProgress(steps), where onProgress is the
\* callback of the store
Progress(r, stepId, status, detail) ==
    /\ steps' = [steps EXCEPT ![r] = updateStep(steps[r], stepId, status, detail)]
    /\ observed' = [observed EXCEPT ![r] = steps'[r]]
    /\ currentVerification' = onProgress(currentVerification, steps'[r])

\* hashMediaFile settles (lines 91-95)
HashDone(r) ==
    /\ pc[r] = "hash"
    /\ \/ LET fileHash == Digest(record[r].fileUri) IN
          /\ record' = [record EXCEPT ![r].fileHash = fileHash]
          /\ Progress(r, "hash", "success", fileHash \o "...")
          /\ pc' = [pc EXCEPT ![r] = "sleep1"]
          /\ UNCHANGED caught
       \/ \* the file cannot be read, in the primary and in the fallback path
          /\ Catch(r, "ReadError")
    /\ UNCHANGED <<loc, anchorCause, outcome, db, cloud, secureStore, ledgerVars>>
    /\ UNCHANGED <<libCall, scanVars>>

\* lines 98-100
SignStart(r) ==
    /\ pc[r] = "sleep1"
    /\ Progress(r, "sign", "running", NoDetail)
    /\ pc' = [pc EXCEPT ![r] = "sign"]
    /\ UNCHANGED <<record, loc, anchorCause, caught, outcome, db, cloud,
                   secureStore, ledgerVars>>
    /\ UNCHANGED <<libCall, scanVars>>

\* signData and getPublicKey settle (lines 100-106)
SignDone(r) ==
    /\ pc[r] = "sign"
    /\ IF secureStore.privateKey = NULL
       THEN Catch(r, "No private key found. Generate keys first.")
       ELSE /\ record' = [record EXCEPT
                  ![r].signature = Ed25519Sign(record[r].fileHash, secureStore.privateKey),
                  ![r].publicKey = IF secureStore.publicKey = NULL THEN ""
                                   ELSE secureStore.publicKey]
            /\ Progress(r, "sign", "success", "Signed")
            /\ pc' = [pc EXCEPT ![r] = "sleep2"]
            /\ UNCHANGED caught
    /\ UNCHANGED <<loc, anchorCause, outcome, db, cloud, secureStore, ledgerVars>>
    /\ UNCHANGED <<libCall, scanVars>>

\* lines 109-114
AnchorStart(r) ==
    /\ pc[r] = "sleep2"
    /\ Progress(r, "blockchain", "running", NoDetail)
    /\ pc' = [pc EXCEPT ![r] = "anchor"]
    /\ UNCHANGED <<record, loc, anchorCause, caught, outcome, db, cloud,
                   secureStore, ledgerVars>>
    /\ UNCHANGED <<libCall, scanVars>>

\* an anchor step that reports a thrown anchorProof as a success
AnchorStepThrowIsSuccess(bcResult, bcError) ==
    IF bcResult # NoBcResult \/ bcError # NULL
    THEN [status |-> "success", detail |-> "Tx: " \o bcResult.txHash]
    ELSE [status |-> "error", detail |-> "Failed - will retry"]

\* lines 118-134: the status and detail of the anchor step
AnchorStep(bcResult, bcError) ==
    IF bcResult # NoBcResult
    THEN [status |-> "success", detail |-> "Tx: " \o bcResult.txHash]
    ELSE [status |-> "error",
          detail |-> IF bcError # NULL THEN bcError ELSE "Failed - will retry"]

\* anchorProof settles (lines 114-136)
AnchorDone(r) ==
    /\ pc[r] = "anchor"
    /\ \E env \in AnchorEnvs :
        LET res == anchorProof(record[r].fileHash, record[r].signature,
                               record[r].publicKey, env)
            bcResult == IF res.kind = "value" THEN res.value ELSE NoBcResult
            bcError == IF res.kind = "throw" THEN res.message ELSE NULL
        IN
        /\ IF AnchorSends(env)
           THEN SendAnchorProof(toBytes32(record[r].fileHash), record[r].signature,
                                record[r].publicKey, DeviceWallet)
           ELSE UNCHANGED ledgerVars
        /\ anchorCause' = [anchorCause EXCEPT ![r] =
                              IF res.inner = NULL THEN "mined" ELSE res.inner]
        /\ loc' = [loc EXCEPT ![r].bcResult = bcResult, ![r].bcError = bcError]
        /\ IF bcResult # NoBcResult
           THEN record' = [record EXCEPT ![r].blockchainTx = bcResult.txHash,
                                         ![r].blockNumber = bcResult.blockNumber]
           ELSE UNCHANGED record
        /\ Progress(r, "blockchain", AnchorStep(bcResult, bcError).status,
                    AnchorStep(bcResult, bcError).detail)
    /\ pc' = [pc EXCEPT ![r] = "sleep3"]
    /\ UNCHANGED <<caught, outcome, db, cloud, secureStore>>
    /\ UNCHANGED <<libCall, scanVars>>

\* lines 139-151: the AI step starts; an image is read as base64 first
AiStart(r) ==
    /\ pc[r] = "sleep3"
    /\ Progress(r, "ai", "running", NoDetail)
    /\ pc' = [pc EXCEPT ![r] = IF record[r].fileType = "image" THEN "readImage"
                               ELSE "detect"]
    /\ UNCHANGED <<record, loc, anchorCause, caught, outcome, db, cloud,
                   secureStore, ledgerVars>>
    /\ UNCHANGED <<libCall, scanVars>>

\* readAsStringAsync settles; a failure is swallowed (lines 143-151)
ReadImageDone(r) ==
    /\ pc[r] = "readImage"
    /\ \E b64 \in {"", "base64:" \o record[r].fileUri} :
          loc' = [loc EXCEPT ![r].imageBase64 = b64]
    /\ pc' = [pc EXCEPT ![r] = "detect"]
    /\ UNCHANGED <<steps, observed, record, anchorCause, caught, outcome, db,
                   cloud, secureStore, ledgerVars>>
    /\ UNCHANGED <<libCall, currentVerification, scanVars>>

\* a detail that does not look at the simulated flag
AiDetailIgnoresSimulated(aiResult) ==
    IF aiResult.isGenuine THEN "Genuine"
    ELSE "Suspicious (" \o ToString(aiResult.deepfakeScore \div 10) \o "%)"

AiDetail(aiResult) ==
    IF aiResult.simulated THEN "Simulated - API unavailable"
    ELSE IF aiResult.isGenuine THEN "Genuine"
    ELSE "Suspicious (" \o ToString(aiResult.deepfakeScore \div 10) \o "%)"

\* detectDeepfake settles (lines 151-165)
DetectDone(r) ==
    /\ pc[r] = "detect"
    /\ \E resp \in AiResponses, d \in SimDeepfakeRaw, g \in SimGeneratedRaw :
        LET aiResult == detectDeepfake(loc[r].imageBase64, resp, d, g) IN
        /\ loc' = [loc EXCEPT ![r].aiResult = aiResult]
        /\ record' = [record EXCEPT ![r].aiDeepfakeScore = aiResult.deepfakeScore,
                                    ![r].aiGeneratedScore = aiResult.aiGeneratedScore]
        /\ Progress(r, "ai", IF aiResult.simulated THEN "error" ELSE "success",
                    AiDetail(aiResult))
    /\ pc' = [pc EXCEPT ![r] = "sleep4"]
    /\ UNCHANGED <<anchorCause, caught, outcome, db, cloud, secureStore, ledgerVars>>
    /\ UNCHANGED <<libCall, scanVars>>

\* lines 168-170
PlagiarismStart(r) ==
    /\ pc[r] = "sleep4"
    /\ Progress(r, "plagiarism", "running", NoDetail)
    /\ pc' = [pc EXCEPT ![r] = "plagiarism"]
    /\ UNCHANGED <<record, loc, anchorCause, caught, outcome, db, cloud,
                   secureStore, ledgerVars>>
    /\ UNCHANGED <<libCall, scanVars>>

PlagiarismDetail(res) ==
    IF res.simulated THEN "Simulated - API unavailable"
    ELSE IF res.isOriginal THEN "Original"
    ELSE ToString(res.matchPercentage) \o "% match"

\* checkPlagiarism settles (lines 170-183)
PlagiarismDone(r) ==
    /\ pc[r] = "plagiarism"
    /\ \E resp \in PlagiarismResponses, m \in SimMatch :
        LET res == checkPlagiarism(loc[r].imageBase64, resp, m) IN
        /\ loc' = [loc EXCEPT ![r].plagiarismResult = res]
        /\ record' = [record EXCEPT ![r].plagiarismScore = res.matchPercentage]
        /\ Progress(r, "plagiarism", IF res.simulated THEN "error" ELSE "success",
                    PlagiarismDetail(res))
    /\ pc' = [pc EXCEPT ![r] = "sleep5"]
    /\ UNCHANGED <<anchorCause, caught, outcome, db, cloud, secureStore, ledgerVars>>
    /\ UNCHANGED <<libCall, scanVars>>

\* lines 186-187
TrustStart(r) ==
    /\ pc[r] = "sleep5"
    /\ Progress(r, "trust", "running", NoDetail)
    /\ pc' = [pc EXCEPT ![r] = "trust"]
    /\ UNCHANGED <<record, loc, anchorCause, caught, outcome, db, cloud,
                   secureStore, ledgerVars>>
    /\ UNCHANGED <<libCall, scanVars>>

\* the factors of the pipeline without the metadata flag
TrustFactorsNoMetadata(r) ==
    [hashVerified |-> TRUE, signatureValid |-> TRUE,
     blockchainAnchored |-> loc[r].bcResult # NoBcResult,
     deepfakeScore |-> loc[r].aiResult.deepfakeScore,
     aiGeneratedScore |-> loc[r].aiResult.aiGeneratedScore,
     plagiarismScore |-> loc[r].plagiarismResult.matchPercentage,
     hasMetadata |-> FALSE]

\* the factors of the pipeline with the anchored flag always set
TrustFactorsAlwaysAnchored(r) ==
    [hashVerified |-> TRUE, signatureValid |-> TRUE,
     blockchainAnchored |-> TRUE,
     deepfakeScore |-> loc[r].aiResult.deepfakeScore,
     aiGeneratedScore |-> loc[r].aiResult.aiGeneratedScore,
     plagiarismScore |-> loc[r].plagiarismResult.matchPercentage,
     hasMetadata |-> TRUE]

TrustFactors(r) ==
    [hashVerified |-> TRUE, signatureValid |-> TRUE,
     blockchainAnchored |-> loc[r].bcResult # NoBcResult,
     deepfakeScore |-> loc[r].aiResult.deepfakeScore,
     aiGeneratedScore |-> loc[r].aiResult.aiGeneratedScore,
     plagiarismScore |-> loc[r].plagiarismResult.matchPercentage,
     hasMetadata |-> TRUE]

\* lines 188-206
TrustDone(r) ==
    /\ pc[r] = "trust"
    /\ LET trustResult == computeTrustScore(TrustFactors(r)) IN
        /\ loc' = [loc EXCEPT ![r].trustResult = trustResult]
        /\ record' = [record EXCEPT ![r].trustScore = trustResult.score,
                                    ![r].trustGrade = trustResult.grade]
        /\ Progress(r, "trust", "success",
                    "Score: " \o ToString(trustResult.score) \o " (Grade "
                        \o trustResult.grade \o ")")
    /\ pc' = [pc EXCEPT ![r] = "sleep6"]
    /\ UNCHANGED <<anchorCause, caught, outcome, db, cloud, secureStore, ledgerVars>>
    /\ UNCHANGED <<libCall, scanVars>>

\* lines 209-212
WatermarkStart(r) ==
    /\ pc[r] = "sleep6"
    /\ Progress(r, "watermark", "running", NoDetail)
    /\ pc' = [pc EXCEPT ![r] = "watermark"]
    /\ UNCHANGED <<record, loc, anchorCause, caught, outcome, db, cloud,
                   secureStore, ledgerVars>>
    /\ UNCHANGED <<libCall, scanVars>>

\* lines 211-221: applyVisibleWatermark for an image, then the invisible id
WatermarkDone(r) ==
    /\ pc[r] = "watermark"
    /\ IF record[r].fileType = "image"
       THEN \E copied \in BOOLEAN :
              record' = [record EXCEPT ![r].watermarkedUri =
                            applyVisibleWatermark(record[r].fileUri,
                                loc[r].trustResult.score, loc[r].trustResult.grade,
                                copied)]
       ELSE UNCHANGED record
    /\ \E wmId \in WatermarkIds : Progress(r, "watermark", "success", "ID: " \o wmId)
    /\ pc' = [pc EXCEPT ![r] = "watermarked"]
    /\ UNCHANGED <<loc, anchorCause, caught, outcome, db, cloud, secureStore,
                   ledgerVars>>
    /\ UNCHANGED <<libCall, scanVars>>

\* lines 224-230: the cloud step starts; the thumbnail goes first when there
\* is image data
CloudStart(r) ==
    /\ pc[r] = "watermarked"
    /\ Progress(r, "cloud", "running", NoDetail)
    /\ pc' = [pc EXCEPT ![r] = IF loc[r].imageBase64 # "" THEN "thumbnail"
                               ELSE "upload"]
    /\ UNCHANGED <<record, loc, anchorCause, caught, outcome, db, cloud,
                   secureStore, ledgerVars>>
    /\ UNCHANGED <<libCall, scanVars>>

\* uploadThumbnailToStorage settles (lines 229-240)
ThumbnailDone(r) ==
    /\ pc[r] = "thumbnail"
    /\ \E uploaded \in BOOLEAN :
        LET publicImageUrl ==
                uploadThumbnailToStorage(record[r].id, loc[r].imageBase64, uploaded)
        IN  record' = [record EXCEPT ![r].imageUrl =
                          IF publicImageUrl # NULL THEN publicImageUrl ELSE @]
    /\ pc' = [pc EXCEPT ![r] = "upload"]
    /\ UNCHANGED <<steps, observed, loc, anchorCause, caught, outcome, db, cloud,
                   secureStore, ledgerVars>>
    /\ UNCHANGED <<libCall, currentVerification, scanVars>>

\* a final status that depends on the cloud sync
FinalStatusNeedsSync(cloudSynced) == IF cloudSynced THEN "verified" ELSE "failed"

\* line 250: the status the record gets after the cloud step
FinalStatus(cloudSynced) == "verified"

\* uploadProofToSupabase settles; lines 240-252 up to the pending final write
CloudDone(r) ==
    /\ pc[r] = "upload"
    /\ \E env \in {"ok", "error", "throw"} :
        LET up == uploadProofToSupabase(record[r], env) IN
        /\ cloud' = up.cloud
        /\ loc' = [loc EXCEPT ![r].cloudSynced = up.synced]
        /\ Progress(r, "cloud", IF up.synced THEN "success" ELSE "error",
                    IF up.synced THEN "Synced" ELSE "Local only")
        /\ record' = [record EXCEPT ![r].status = FinalStatus(up.synced)]
    /\ pc' = [pc EXCEPT ![r] = "finalWrite"]
    /\ UNCHANGED <<anchorCause, caught, outcome, db, secureStore, ledgerVars>>
    /\ UNCHANGED <<libCall, scanVars>>

\* the final updateMediaRecord settles (lines 252-254); a rejection is caught
\* by the catch clause of the pipeline
FinalWriteDone(r) ==
    /\ pc[r] = "finalWrite"
    /\ \/ /\ db' = updateMediaRecord(db, record[r].id, record[r])
          /\ outcome' = [outcome EXCEPT ![r] = [kind |-> "returned", error |-> NULL]]
          /\ pc' = [pc EXCEPT ![r] = "done"]
          /\ UNCHANGED <<record, caught, steps, observed, currentVerification>>
       \/ /\ Catch(r, "DbError")
          /\ UNCHANGED <<db, outcome>>
    /\ UNCHANGED <<loc, anchorCause, cloud, secureStore, ledgerVars>>
    /\ UNCHANGED <<libCall, scanVars>>

\* a failure write that stores the whole in-memory record
FailureUpdatesWholeRecord(rec) == rec

\* line 259: the updates of the failure write
FailureUpdates(rec) == [status |-> "failed"]

\* the write of the failed status settles (lines 259-260)
FailWriteDone(r) ==
    /\ pc[r] = "failWrite"
    /\ \/ /\ db' = updateMediaRecord(db, record[r].id, FailureUpdates(record[r]))
          /\ outcome' = [outcome EXCEPT ![r] = [kind |-> "threw", error |-> caught[r]]]
       \/ \* the write rejects inside the catch clause
          /\ outcome' = [outcome EXCEPT ![r] = [kind |-> "threw", error |-> "DbError"]]
          /\ UNCHANGED db
    /\ pc' = [pc EXCEPT ![r] = "done"]
    /\ UNCHANGED <<steps, observed, record, loc, anchorCause, caught, cloud,
                   secureStore, ledgerVars>>
    /\ UNCHANGED <<libCall, currentVerification, scanVars>>

Next ==
    \/ \E r \in Runs :
          \/ Start(r) \/ InsertDone(r)
          \/ HashDone(r)
          \/ SignStart(r) \/ SignDone(r)
          \/ AnchorStart(r) \/ AnchorDone(r)
          \/ AiStart(r) \/ ReadImageDone(r) \/ DetectDone(r)
          \/ PlagiarismStart(r) \/ PlagiarismDone(r)
          \/ TrustStart(r) \/ TrustDone(r)
          \/ WatermarkStart(r) \/ WatermarkDone(r)
          \/ CloudStart(r) \/ ThumbnailDone(r) \/ CloudDone(r)
          \/ FinalWriteDone(r) \/ FailWriteDone(r)
    \/ GenerateKeyPair
    \/ OtherAnchorProof

Spec == Init /\ [][Next]_vars

(* ------------- the library functions called on their own -------------- *)
\* deepfakeScore and aiGeneratedScore arguments, in thousandths: the tier
\* limits 0.2, 0.4, 0.7, the values next to them and values inside the tiers
FactorScores == {0, 200, 201, 400, 401, 600, 700, 701, 1000}
\* plagiarismScore arguments: the tier limits 30 and 50 and their neighbours
FactorPercents == {0, 30, 31, 50, 51, 100}

TrustFactorSets ==
    [hashVerified : BOOLEAN, signatureValid : BOOLEAN, blockchainAnchored : BOOLEAN,
     deepfakeScore : FactorScores, aiGeneratedScore : FactorScores,
     plagiarismScore : FactorPercents, hasMetadata : BOOLEAN]

TrustCalls ==
    {[fn |-> "computeTrustScore", done |-> FALSE, args |-> f, result |-> NoTrustResult] :
        f \in TrustFactorSets}

\* POST /api/plagiarism of the backend; similarityScore = Math.random() * 15,
\* in tenths of a percent
ServerSimilarities == {0, 104, 149}

apiPlagiarism(similarityScore) ==
    [kind |-> "http", status |-> 200, body |-> "json",
     isOriginal |-> IF similarityScore < 200 THEN "true" ELSE "false",
     plagiarismScore |-> (similarityScore + 5) \div 10,
     simulated |-> TRUE]

\* Math.random() * 0.15, Math.random() * 0.1 and Math.floor(Math.random() * 5)
\* over their ranges
SimDeepfakeRange == {0, 74, 149}
SimGeneratedRange == {0, 99}
SimMatchRange == 0..4

ImageData == {"", "base64:f1"}

DetectCalls ==
    {[fn |-> "detectDeepfake", done |-> FALSE,
      args |-> [imageBase64 |-> b, resp |-> resp, d |-> d, g |-> g],
      result |-> NoAiResult] :
        b \in ImageData, resp \in AiResponses, d \in SimDeepfakeRange,
        g \in SimGeneratedRange}

PlagiarismCalls ==
    {[fn |-> "checkPlagiarism", done |-> FALSE,
      args |-> [imageBase64 |-> b, resp |-> resp, m |-> m],
      result |-> NoPlagiarismResult] :
        b \in ImageData,
        resp \in PlagiarismResponses \cup {apiPlagiarism(x) : x \in ServerSimilarities},
        m \in SimMatchRange}

pipelineVars == <<runVars, db, cloud, secureStore, ledgerVars>>

CallInit ==
    /\ PipelineInit
    /\ StoreInit
    /\ ScanInit
    /\ libCall \in TrustCalls \cup DetectCalls \cup PlagiarismCalls

ReturnComputeTrustScore ==
    /\ libCall.fn = "computeTrustScore" /\ ~libCall.done
    /\ libCall' = [libCall EXCEPT !.done = TRUE,
                                  !.result = computeTrustScore(libCall.args)]
    /\ UNCHANGED <<pipelineVars, currentVerification, scanVars>>

ReturnDetectDeepfake ==
    /\ libCall.fn = "detectDeepfake" /\ ~libCall.done
    /\ libCall' = [libCall EXCEPT !.done = TRUE,
                      !.result = detectDeepfake(libCall.args.imageBase64,
                                    libCall.args.resp, libCall.args.d, libCall.args.g)]
    /\ UNCHANGED <<pipelineVars, currentVerification, scanVars>>

ReturnCheckPlagiarism ==
    /\ libCall.fn = "checkPlagiarism" /\ ~libCall.done
    /\ libCall' = [libCall EXCEPT !.done = TRUE,
                      !.result = checkPlagiarism(libCall.args.imageBase64,
                                    libCall.args.resp, libCall.args.m)]
    /\ UNCHANGED <<pipelineVars, currentVerification, scanVars>>

CallNext ==
    \/ ReturnComputeTrustScore
    \/ ReturnDetectDeepfake
    \/ ReturnCheckPlagiarism

CallSpec == CallInit /\ [][CallNext]_vars

(* ---------------- the storage functions called on their own ------------ *)
StorageIds == {"rec-a", "rec-b"}

\* records handed to insertMediaRecord: a record as created and as completed
StorageRecords ==
    {[InitialRecord(id, "f1", "image") EXCEPT !.status = st, !.trustScore = t] :
        id \in StorageIds, st \in {"verifying", "verified"}, t \in {0, 92}}

StorageCall(fn, args) == [fn |-> fn, done |-> TRUE, args |-> args, before |-> db]

CallInsertMediaRecord ==
    /\ \E rec \in StorageRecords :
          /\ db' = insertMediaRecord(db, rec)
          /\ libCall' = StorageCall("insertMediaRecord", rec)
    /\ UNCHANGED <<runVars, cloud, secureStore, ledgerVars, currentVerification,
                   scanVars>>

CallUpdateMediaRecord ==
    /\ \E id \in StorageIds, st \in {"verified", "failed"} :
          /\ db' = updateMediaRecord(db, id, [status |-> st])
          /\ libCall' = StorageCall("updateMediaRecord", [id |-> id, status |-> st])
    /\ UNCHANGED <<runVars, cloud, secureStore, ledgerVars, currentVerification,
                   scanVars>>

CallDeleteRecord ==
    /\ \E id \in StorageIds :
          /\ db' = deleteRecord(db, id)
          /\ libCall' = StorageCall("deleteRecord", [id |-> id])
    /\ UNCHANGED <<runVars, cloud, secureStore, ledgerVars, currentVerification,
                   scanVars>>

StorageNext ==
    \/ CallInsertMediaRecord
    \/ CallUpdateMediaRecord
    \/ CallDeleteRecord

StorageSpec == Init /\ [][StorageNext]_vars

(* ------------- the store: startVerification, clearVerification --------- *)
\* the calls of startVerification that can overlap
ConcRuns == {1, 2}

\* the ids two runs can draw: Date.now() in base 36 followed by six random
\* base-36 digits; two calls in the same millisecond can draw the same digits
ConcRecordIds == RecordIds \cup {"mb3k2x9q4z7b"}

\* the media handed to the overlapping calls
ConcFileTypes == {"video"}

\* the application after construction, with two calls of startVerification
\* to come
ConcInit ==
    /\ pc = [r \in ConcRuns |-> "idle"]
    /\ steps = [r \in ConcRuns |-> <<>>]
    /\ observed = [r \in ConcRuns |-> <<>>]
    /\ record = [r \in ConcRuns |-> NoRecord]
    /\ loc = [r \in ConcRuns |-> NoLocals]
    /\ anchorCause = [r \in ConcRuns |-> "none"]
    /\ caught = [r \in ConcRuns |-> NULL]
    /\ outcome = [r \in ConcRuns |-> [kind |-> "pending", error |-> NULL]]
    /\ db = EmptyTable
    /\ cloud = EmptyTable
    /\ secureStore = NoKeys
    /\ proofs = [h \in Digests \cup {ZeroHash} |-> EmptyProof]
    /\ proofHashes = <<>>
    /\ blockNumber = 1
    /\ lastTx = NoTx
    /\ libCall = NoCall
    /\ StoreInit
    /\ ScanInit

\* startVerification is called: the store shows a fresh verification and the
\* pipeline runs up to its pending insertMediaRecord (pipeline lines 44-85)
StartVerification(r) ==
    /\ pc[r] = "idle"
    /\ currentVerification' = FreshVerification
    /\ \E id \in ConcRecordIds, uri \in Files, type \in ConcFileTypes :
          /\ steps' = [steps EXCEPT ![r] = createSteps]
          /\ record' = [record EXCEPT ![r] = InitialRecord(id, uri, type)]
    /\ pc' = [pc EXCEPT ![r] = "insert"]
    /\ UNCHANGED <<observed, loc, anchorCause, caught, outcome, db, cloud,
                   secureStore, ledgerVars>>
    /\ UNCHANGED <<libCall, scanVars>>

\* the pipeline returned: the store shows the result
VerificationResolved(r) ==
    /\ pc[r] = "done" /\ outcome[r].kind = "returned"
    /\ currentVerification' =
          IF currentVerification.present
          THEN [currentVerification EXCEPT !.isRunning = FALSE, !.result = record[r]]
          ELSE currentVerification
    /\ pc' = [pc EXCEPT ![r] = "settled"]
    /\ UNCHANGED <<steps, observed, record, loc, anchorCause, caught, outcome, db,
                   cloud, secureStore, ledgerVars>>
    /\ UNCHANGED <<libCall, scanVars>>

\* the pipeline threw: the catch clause of startVerification
VerificationRejected(r) ==
    /\ pc[r] = "done" /\ outcome[r].kind = "threw"
    /\ currentVerification' =
          IF currentVerification.present
          THEN [currentVerification EXCEPT !.isRunning = FALSE]
          ELSE currentVerification
    /\ pc' = [pc EXCEPT ![r] = "settled"]
    /\ UNCHANGED <<steps, observed, record, loc, anchorCause, caught, outcome, db,
                   cloud, secureStore, ledgerVars>>
    /\ UNCHANGED <<libCall, scanVars>>

\* clearVerification, called when the verification sheet is dismissed
ClearVerification ==
    /\ currentVerification.present
    /\ currentVerification' = NullVerification
    /\ UNCHANGED <<pipelineVars, libCall, scanVars>>

ConcNext ==
    \/ \E r \in ConcRuns :
          \/ StartVerification(r) \/ InsertDone(r)
          \/ HashDone(r)
          \/ SignStart(r) \/ SignDone(r)
          \/ AnchorStart(r) \/ AnchorDone(r)
          \/ AiStart(r) \/ DetectDone(r)
          \/ PlagiarismStart(r) \/ PlagiarismDone(r)
          \/ TrustStart(r) \/ TrustDone(r)
          \/ WatermarkStart(r) \/ WatermarkDone(r)
          \/ CloudStart(r) \/ CloudDone(r)
          \/ FinalWriteDone(r) \/ FailWriteDone(r)
          \/ VerificationResolved(r) \/ VerificationRejected(r)
    \/ ClearVerification
    \/ GenerateKeyPair

ConcSpec == ConcInit /\ [][ConcNext]_vars

(* ------------------- the pipeline and its scheduling ------------------- *)
\* the steps of a run, and the onboarding action
LiveNext ==
    \/ \E r \in Runs :
          \/ Start(r) \/ InsertDone(r)
          \/ HashDone(r)
          \/ SignStart(r) \/ SignDone(r)
          \/ AnchorStart(r) \/ AnchorDone(r)
          \/ AiStart(r) \/ ReadImageDone(r) \/ DetectDone(r)
          \/ PlagiarismStart(r) \/ PlagiarismDone(r)
          \/ TrustStart(r) \/ TrustDone(r)
          \/ WatermarkStart(r) \/ WatermarkDone(r)
          \/ CloudStart(r) \/ ThumbnailDone(r) \/ CloudDone(r)
          \/ FinalWriteDone(r) \/ FailWriteDone(r)
    \/ GenerateKeyPair

\* what the code's scheduling guarantees: the statements between two awaits
\* run, the sleeps end, the calls of the device (storage, file system, key
\* store) settle, and the two oracle calls settle because withTimeout rejects
\* them after API_TIMEOUT. anchorProof, uploadThumbnailToStorage and
\* uploadProofToSupabase await the network without a timeout: nothing
\* guarantees that AnchorDone, ThumbnailDone and CloudDone ever happen.
PipelineFairness ==
    \A r \in Runs :
        /\ WF_vars(InsertDone(r)) /\ WF_vars(HashDone(r))
        /\ WF_vars(SignStart(r)) /\ WF_vars(SignDone(r))
        /\ WF_vars(AnchorStart(r))
        /\ WF_vars(AiStart(r)) /\ WF_vars(ReadImageDone(r)) /\ WF_vars(DetectDone(r))
        /\ WF_vars(PlagiarismStart(r)) /\ WF_vars(PlagiarismDone(r))
        /\ WF_vars(TrustStart(r)) /\ WF_vars(TrustDone(r))
        /\ WF_vars(WatermarkStart(r)) /\ WF_vars(WatermarkDone(r))
        /\ WF_vars(CloudStart(r))
        /\ WF_vars(FinalWriteDone(r)) /\ WF_vars(FailWriteDone(r))

LiveSpec == Init /\ [][LiveNext]_vars /\ PipelineFairness

(* ------------------- gallery-db.ts: scanned_images --------------------- *)
\* INSERT OR REPLACE in the place of INSERT OR IGNORE
insertScannedImageReplace(table, rec) ==
    [a \in DOMAIN table \cup {rec.assetId} |-> IF a = rec.assetId THEN rec ELSE table[a]]

\* INSERT OR IGNORE INTO scanned_images: assetId is UNIQUE
insertScannedImage(table, rec) ==
    IF rec.assetId \in DOMAIN table THEN table
    ELSE [a \in DOMAIN table \cup {rec.assetId} |->
             IF a = rec.assetId THEN rec ELSE table[a]]

\* UPDATE scanned_images SET currentHash, isTampered, ... WHERE assetId = ?
updateScannedImage(table, assetId, updates) ==
    [a \in DOMAIN table |->
        IF a = assetId
        THEN [table[a] EXCEPT !.currentHash = updates.currentHash,
                              !.isTampered = updates.isTampered]
        ELSE table[a]]

isAssetScanned(assetId) == assetId \in DOMAIN scannedImages

getScannedByAssetId(assetId) ==
    IF assetId \in DOMAIN scannedImages THEN scannedImages[assetId]
    ELSE NoScannedImage

(* --------------- scanGalleryForNewImages and reverifyImage ------------- *)
\* the asset a call is working on
CurrentAsset(c) == scanner[c].assets[scanner[c].i]

\* the scanner's variables are the only ones a scanner step changes
ScanFrame == UNCHANGED <<pipelineVars, libCall, currentVerification>>

\* the loop of scanGalleryForNewImages goes to the next asset, or the call
\* is over: the call's state after the work on the current asset
NextAsset(c) ==
    IF scanner[c].i < Len(scanner[c].assets)
    THEN [scanner[c] EXCEPT !.i = @ + 1, !.pc = "check", !.hash = "",
                            !.existing = NoScannedImage]
    ELSE [scanner[c] EXCEPT !.pc = "done", !.hash = "", !.existing = NoScannedImage]

\* scanGalleryForNewImages is called: the permission is denied and the call
\* throws, or the assets are fetched and the first isAssetScanned is pending
ScanStart(c) ==
    /\ scanner[c].pc = "idle"
    /\ \E granted \in BOOLEAN :
          scanner' = [scanner EXCEPT ![c] =
              IF granted
              THEN [NoScan EXCEPT !.fn = "scan", !.pc = "check",
                                  !.assets = AssetList, !.i = 1]
              ELSE [NoScan EXCEPT !.fn = "scan", !.pc = "done"]]
    /\ UNCHANGED <<gallery, scannedImages>>
    /\ ScanFrame

\* isAssetScanned settles: the new-image branch or the re-check branch
AssetChecked(c) ==
    /\ scanner[c].pc = "check"
    /\ scanner' = [scanner EXCEPT ![c].pc =
                      IF isAssetScanned(CurrentAsset(c)) THEN "getExisting"
                      ELSE "hashNew"]
    /\ UNCHANGED <<gallery, scannedImages>>
    /\ ScanFrame

\* getAssetInfoAsync and hashMediaFile settle for a new image; a failure is
\* caught and the loop goes on
NewHashed(c) ==
    /\ scanner[c].pc = "hashNew"
    /\ \/ scanner' = [scanner EXCEPT ![c].hash = Digest(gallery[CurrentAsset(c)]),
                                     ![c].pc = "insert"]
       \/ scanner' = [scanner EXCEPT ![c] = NextAsset(c)]
    /\ UNCHANGED <<gallery, scannedImages>>
    /\ ScanFrame

\* the record of a new image
NewScannedImage(assetId, hash) ==
    [assetId |-> assetId, originalHash |-> hash, currentHash |-> hash,
     isTampered |-> FALSE]

\* insertScannedImage settles
InsertDoneScanned(c) ==
    /\ scanner[c].pc = "insert"
    /\ \/ scannedImages' =
             insertScannedImage(scannedImages,
                                NewScannedImage(CurrentAsset(c), scanner[c].hash))
       \/ UNCHANGED scannedImages
    /\ scanner' = [scanner EXCEPT ![c] = NextAsset(c)]
    /\ UNCHANGED gallery
    /\ ScanFrame

\* reverifyImage(assetId) is called: getScannedByAssetId is pending
ReverifyStart(c) ==
    /\ scanner[c].pc = "idle"
    /\ \E assetId \in Assets :
          scanner' = [scanner EXCEPT ![c] =
              [NoScan EXCEPT !.fn = "reverify", !.pc = "getExisting",
                             !.assets = <<assetId>>, !.i = 1]]
    /\ UNCHANGED <<gallery, scannedImages>>
    /\ ScanFrame

\* getScannedByAssetId settles: with no row there is nothing to re-check
ExistingRead(c) ==
    /\ scanner[c].pc = "getExisting"
    /\ LET existing == getScannedByAssetId(CurrentAsset(c)) IN
          scanner' = [scanner EXCEPT ![c] =
              IF existing = NoScannedImage THEN NextAsset(c)
              ELSE [scanner[c] EXCEPT !.existing = existing, !.pc = "rehash"]]
    /\ UNCHANGED <<gallery, scannedImages>>
    /\ ScanFrame

\* getAssetInfoAsync and hashMediaFile settle for a known image
Rehashed(c) ==
    /\ scanner[c].pc = "rehash"
    /\ \/ scanner' = [scanner EXCEPT ![c].hash = Digest(gallery[CurrentAsset(c)]),
                                     ![c].pc = "update"]
       \/ scanner' = [scanner EXCEPT ![c] = NextAsset(c)]
    /\ UNCHANGED <<gallery, scannedImages>>
    /\ ScanFrame

\* const isTampered = currentHash !== existing.originalHash, and the updates
\* handed to updateScannedImage
TamperUpdates(existing, currentHash) ==
    [currentHash |-> currentHash, isTampered |-> currentHash # existing.originalHash]

\* updateScannedImage settles
UpdateDoneScanned(c) ==
    /\ scanner[c].pc = "update"
    /\ \/ scannedImages' =
             updateScannedImage(scannedImages, CurrentAsset(c),
                                TamperUpdates(scanner[c].existing, scanner[c].hash))
       \/ UNCHANGED scannedImages
    /\ scanner' = [scanner EXCEPT ![c] = NextAsset(c)]
    /\ UNCHANGED gallery
    /\ ScanFrame

\* the call returns (or throws) to the screen, which can call again
ScanReturn(c) ==
    /\ scanner[c].pc = "done"
    /\ scanner' = [scanner EXCEPT ![c] = NoScan]
    /\ UNCHANGED <<gallery, scannedImages>>
    /\ ScanFrame

\* the bytes of a photo of the media library change
EditAsset ==
    /\ \E a \in Assets, b \in Contents :
          /\ b # gallery[a]
          /\ gallery' = [gallery EXCEPT ![a] = b]
    /\ UNCHANGED <<scannedImages, scanner>>
    /\ ScanFrame

ScanNext ==
    \/ \E c \in ScanCalls :
          \/ ScanStart(c) \/ AssetChecked(c) \/ NewHashed(c) \/ InsertDoneScanned(c)
          \/ ReverifyStart(c) \/ ExistingRead(c) \/ Rehashed(c)
          \/ UpdateDoneScanned(c) \/ ScanReturn(c)
    \/ EditAsset

ScanSpec == Init /\ [][ScanNext]_vars

(* ============================ properties =============================== *)
HasStep(s, stepId) == \E j \in DOMAIN s : s[j].id = stepId

\* the status and the detail of a step of a list ("none" for a list without it)
StepStatus(s, stepId) ==
    IF HasStep(s, stepId)
    THEN LET i == CHOOSE j \in DOMAIN s : s[j].id = stepId IN s[i].status
    ELSE "none"

StepDetail(s, stepId) ==
    IF HasStep(s, stepId)
    THEN LET i == CHOOSE j \in DOMAIN s : s[j].id = stepId IN s[i].detail
    ELSE "none"

Started(r) == pc[r] # "idle"

Stored(r) == Started(r) /\ record[r].id \in DOMAIN db

\* the exceptions a stage raises
StageErrors == {"ReadError", "No private key found. Generate keys first."}

LegalStatusMove(a, b) ==
    \/ a = b
    \/ a = "none" /\ b = "verifying"
    \/ a = "verifying" /\ b \in {"verified", "failed"}

\* C1: the lifecycle status of the in-memory record and of the stored row only
\* moves verifying -> verified or verifying -> failed, and never changes once
\* it is verified or failed, also when the final write throws.
C1_StatusNeverReverts ==
    [][/\ \A r \in Runs : LegalStatusMove(record[r].status, record'[r].status)
       /\ \A id \in DOMAIN db :
             id \in DOMAIN db' /\ LegalStatusMove(db[id].status, db'[id].status)]_vars

\* C2: a run in which a stage raised ends with the record failed, the failed
\* status stored, and the stage's exception raised to the caller; it never
\* ends verified.
C2_StageExceptionFailsRun ==
    \A r \in Runs :
        (pc[r] = "done" /\ caught[r] \in StageErrors) =>
            /\ record[r].status = "failed"
            /\ Stored(r) /\ db[record[r].id].status = "failed"
            /\ outcome[r] = [kind |-> "threw", error |-> caught[r]]

\* C3: when anchorProof returns null or throws, the anchor step ends in error,
\* blockchainTx and blockNumber stay null, the record stays verifying with no
\* exception caught, and the step after the anchor stage starts the AI step.
C3_AnchorFailureContinues ==
    [][\A r \in Runs :
        /\ (pc[r] = "anchor" /\ pc'[r] # "anchor") =>
              /\ pc'[r] = "sleep3"
              /\ loc'[r].bcResult = NoBcResult =>
                    /\ StepStatus(steps'[r], "blockchain") = "error"
                    /\ StepStatus(observed'[r], "blockchain") = "error"
                    /\ record'[r].blockchainTx = NULL
                    /\ record'[r].blockNumber = NoBlock
                    /\ record'[r].status = "verifying"
                    /\ caught'[r] = NULL
        /\ (pc[r] = "sleep3" /\ pc'[r] # "sleep3") =>
              /\ pc'[r] \in {"readImage", "detect"}
              /\ StepStatus(observed'[r], "ai") = "running"]_vars

C3_Witness ==
    \E r \in Runs :
        /\ loc[r].bcError # NULL
        /\ loc[r].bcResult = NoBcResult
        /\ StepStatus(observed[r], "blockchain") = "error"
        /\ StepStatus(observed[r], "ai") = "running"

\* C4: only a fatal exception (unreadable file, no key, storage write) aborts
\* a run; a run without one stores the record as verified whatever the anchor,
\* the oracles and the cloud sync did, and the steps they degraded show error.
C4_RecoverableFailuresDoNotAbort ==
    \A r \in Runs :
        /\ (Started(r) /\ (record[r].status = "failed" \/ caught[r] # NULL)) =>
              caught[r] \in StageErrors \cup {"DbError"}
        /\ (pc[r] = "finalWrite") => record[r].status = "verified"
        /\ (pc[r] = "done" /\ outcome[r].kind = "returned") =>
              /\ Stored(r) /\ db[record[r].id].status = "verified"
              /\ loc[r].bcResult = NoBcResult =>
                    StepStatus(observed[r], "blockchain") = "error"
              /\ loc[r].aiResult.simulated => StepStatus(observed[r], "ai") = "error"
              /\ loc[r].plagiarismResult.simulated =>
                    StepStatus(observed[r], "plagiarism") = "error"
              /\ ~loc[r].cloudSynced => StepStatus(observed[r], "cloud") = "error"

C4_Witness ==
    \E r \in Runs :
        /\ pc[r] = "done" /\ outcome[r].kind = "returned"
        /\ loc[r].bcResult = NoBcResult
        /\ loc[r].aiResult.simulated
        /\ loc[r].plagiarismResult.simulated
        /\ ~loc[r].cloudSynced
        /\ db[record[r].id].status = "verified"

\* C5: the initial record is stored before the first stage starts: whenever a
\* step of a run is not waiting, storage holds a row with the run's id, and
\* while the hash stage runs that row is the initial record.
C5_InitialRecordStoredFirst ==
    \A r \in Runs :
        /\ (Started(r) /\ \E i \in DOMAIN steps[r] : steps[r][i].status # "waiting") =>
              record[r].id \in DOMAIN db
        /\ pc[r] = "hash" =>
              /\ record[r].id \in DOMAIN db
              /\ db[record[r].id] =
                    InitialRecord(record[r].id, record[r].fileUri, record[r].fileType)

C5_Witness ==
    \E r \in Runs :
        /\ pc[r] = "hash"
        /\ StepStatus(steps[r], "hash") = "running"
        /\ db[record[r].id].status = "verifying"

Running(s) == {i \in DOMAIN s : s[i].status = "running"}

WellFormedSteps(s) ==
    /\ Len(s) = 8
    /\ \A i \in 1..8 : s[i].id = StepIds[i]
    /\ Cardinality(Running(s)) <= 1

\* C6: every value of steps and every list handed to onProgress has the 8
\* steps in the fixed order, and at most one of them is running.
C6_EightStepsOneRunning ==
    \A r \in Runs :
        /\ Started(r) => WellFormedSteps(steps[r])
        /\ observed[r] # <<>> => WellFormedSteps(observed[r])

C6_Witness ==
    \E r \in Runs :
        /\ Cardinality(Running(observed[r])) = 1
        /\ StepStatus(observed[r], "hash") = "success"
        /\ StepStatus(observed[r], "blockchain") = "error"
        /\ StepStatus(observed[r], "cloud") = "running"

LegalStepMove(a, b) ==
    \/ a = b
    \/ a = "waiting" /\ b = "running"
    \/ a = "running" /\ b \in {"success", "error"}

\* C7: in the lists the progress observer receives, each step only moves
\* waiting -> running -> (success | error); a step that reached success or
\* error is never shown again as waiting or running.
C7_ProgressMonotonic ==
    [][\A r \in Runs :
        IF observed[r] = <<>>
        THEN observed'[r] # <<>> =>
                \A i \in DOMAIN observed'[r] :
                    observed'[r][i].status \in {"waiting", "running"}
        ELSE /\ DOMAIN observed'[r] = DOMAIN observed[r]
             /\ \A i \in DOMAIN observed[r] :
                    LegalStepMove(observed[r][i].status, observed'[r][i].status)]_vars

C7_Witness ==
    \E r \in Runs :
        /\ pc[r] = "done" /\ outcome[r].kind = "threw"
        /\ StepStatus(observed[r], "hash") = "success"
        /\ StepStatus(observed[r], "sign") = "running"

\* C8: anchorProof never raises: every failure of the submission comes back
\* as null.
C8_AnchorProofNeverThrows ==
    \A r \in Runs : anchorCause[r] # "none" => loc[r].bcError = NULL

\* C9: a digest that already has a proof on the ledger is reported to the
\* caller as an outcome of its own, not as the null / 'Failed - will retry'
\* outcome of a network error.
C9_DuplicateIsDistinct ==
    \A r \in Runs :
        anchorCause[r] = "execution reverted: Proof already exists" =>
            /\ ~(loc[r].bcResult = NoBcResult /\ loc[r].bcError = NULL)
            /\ StepDetail(steps[r], "blockchain") # "Failed - will retry"

NoDuplicates(q) == \A i, j \in DOMAIN q : q[i] = q[j] => i = j

LedgerConsistent ==
    /\ NoDuplicates(proofHashes)
    /\ ~proofExists(ZeroHash)
    /\ \A h \in DOMAIN proofs : proofExists(h) <=> \E i \in DOMAIN proofHashes : proofHashes[i] = h
    /\ getProofCount = Cardinality({h \in DOMAIN proofs : proofExists(h)})

\* C10: the ledger holds at most one proof per file hash: proofHashes has no
\* duplicate, a stored proof is never overwritten, and a rejected call (the
\* hash has a proof, or is the zero hash) leaves proofs and proofHashes as
\* they were.
C10_OneProofPerHash ==
    /\ []LedgerConsistent
    /\ [][/\ \A h \in DOMAIN proofs : proofExists(h) => proofs'[h] = proofs[h]
          /\ lastTx'.revert # NULL => UNCHANGED <<proofs, proofHashes>>
          /\ \A i \in DOMAIN proofHashes :
                i \in DOMAIN proofHashes' /\ proofHashes'[i] = proofHashes[i]]_vars

C10_Witness ==
    /\ lastTx.revert = "Proof already exists"
    /\ getProofCount = 2
    /\ \E h \in DOMAIN proofs : proofExists(h) /\ proofs[h].submitter = DeviceWallet

TrustReturned == libCall.fn = "computeTrustScore" /\ libCall.done

\* the documented reference: 100 less the penalties, the bonus capped at 100,
\* the total clamped to [0, 100]
ReferencePenalties(f) ==
    (IF f.hashVerified THEN 0 ELSE 50)
    + (IF f.signatureValid THEN 0 ELSE 30)
    + (IF f.blockchainAnchored THEN 0 ELSE 10)
    + (CASE f.deepfakeScore > 700 -> 40
         [] f.deepfakeScore > 400 /\ f.deepfakeScore <= 700 -> 20
         [] f.deepfakeScore > 200 /\ f.deepfakeScore <= 400 -> 5
         [] OTHER -> 0)
    + (CASE f.aiGeneratedScore > 700 -> 30
         [] f.aiGeneratedScore > 400 /\ f.aiGeneratedScore <= 700 -> 15
         [] f.aiGeneratedScore > 200 /\ f.aiGeneratedScore <= 400 -> 3
         [] OTHER -> 0)
    + (CASE f.plagiarismScore > 50 -> 20
         [] f.plagiarismScore > 30 /\ f.plagiarismScore <= 50 -> 10
         [] OTHER -> 0)

ReferenceScore(f) ==
    LET raw == 100 - ReferencePenalties(f)
        bonus == IF f.hasMetadata THEN Min(100, raw + 2) ELSE raw
    IN  Max(0, Min(100, bonus))

C12_ScoreBoundedGradeMatches ==
    TrustReturned =>
        LET score == libCall.result.score
            grade == libCall.result.grade
        IN  /\ score \in 0..100
            /\ grade = "S" <=> score >= 95
            /\ grade = "A" <=> score \in 80..94
            /\ grade = "B" <=> score \in 60..79
            /\ grade = "C" <=> score \in 40..59
            /\ grade = "F" <=> score <= 39

C12_Witness ==
    /\ TrustReturned
    /\ libCall.result = [score |-> 40, grade |-> "C"]
    /\ ~libCall.args.hashVerified

\* C13: raising one of deepfakeScore, aiGeneratedScore or plagiarismScore and
\* keeping the other factors never raises the trust score.
C13_ScoreMonotone ==
    TrustReturned =>
        LET f == libCall.args
            score == libCall.result.score
        IN  /\ \A v \in FactorScores : v > f.deepfakeScore =>
                  computeTrustScore([f EXCEPT !.deepfakeScore = v]).score <= score
            /\ \A v \in FactorScores : v > f.aiGeneratedScore =>
                  computeTrustScore([f EXCEPT !.aiGeneratedScore = v]).score <= score
            /\ \A v \in FactorPercents : v > f.plagiarismScore =>
                  computeTrustScore([f EXCEPT !.plagiarismScore = v]).score <= score

C13_Witness ==
    /\ TrustReturned
    /\ libCall.args.deepfakeScore = 600
    /\ libCall.args.plagiarismScore = 50
    /\ computeTrustScore([libCall.args EXCEPT !.deepfakeScore = 701]).score
          < libCall.result.score
    /\ computeTrustScore([libCall.args EXCEPT !.plagiarismScore = 51]).score
          < libCall.result.score

\* C15: with every other factor clean, a deepfake score above 0.5 costs 40
\* points and an AI-generated score above 0.5 costs 30 points.
C15_ReadmeThresholds ==
    (/\ TrustReturned
     /\ libCall.args.hashVerified /\ libCall.args.signatureValid
     /\ libCall.args.blockchainAnchored /\ ~libCall.args.hasMetadata
     /\ libCall.args.plagiarismScore <= 30) =>
        /\ (libCall.args.deepfakeScore > 500 /\ libCall.args.aiGeneratedScore <= 200) =>
              libCall.result.score = 100 - 40
        /\ (libCall.args.aiGeneratedScore > 500 /\ libCall.args.deepfakeScore <= 200) =>
              libCall.result.score = 100 - 30

\* an image run whose hash and sign stages succeeded, whose anchor stage
\* failed, and whose oracle stages both ended with scores in the tiers
\* without penalty
UnanchoredCleanImageRun(r) ==
    /\ Started(r) /\ record[r].fileType = "image"
    /\ StepStatus(observed[r], "hash") = "success"
    /\ StepStatus(observed[r], "sign") = "success"
    /\ StepStatus(observed[r], "blockchain") = "error"
    /\ StepStatus(observed[r], "ai") \in {"success", "error"}
    /\ StepStatus(observed[r], "plagiarism") \in {"success", "error"}
    /\ loc[r].aiResult.deepfakeScore <= 200
    /\ loc[r].aiResult.aiGeneratedScore <= 200
    /\ loc[r].plagiarismResult.matchPercentage <= 30

Scenario92(row) ==
    /\ row.status = "verified"
    /\ row.blockchainTx = NULL
    /\ row.trustScore = 92
    /\ row.trustGrade = "A"

Inserted == libCall.fn = "insertMediaRecord"

\* after insertMediaRecord(rec): the table holds rec under rec.id, every
\* other row is the row it was, and inserting rec again changes nothing
InsertIsUpsert ==
    Inserted =>
        LET rec == libCall.args
            before == libCall.before
        IN  /\ DOMAIN db = DOMAIN before \cup {rec.id}
            /\ db[rec.id] = rec
            /\ \A i \in DOMAIN before \ {rec.id} : db[i] = before[i]
            /\ insertMediaRecord(db, rec) = db

\* C16: insertMediaRecord called twice with the same id and data leaves the
\* table as one call does: one row for the id, with the given values, and no
\* other row changed.
C16_InsertIdempotent ==
    /\ []InsertIsUpsert
    /\ [][(Inserted /\ libCall'.fn = "insertMediaRecord"
              /\ libCall'.args = libCall.args) => db' = db]_vars

C16_Witness ==
    /\ Inserted
    /\ libCall.before = db
    /\ libCall.args.status = "verified"
    /\ Cardinality(DOMAIN db) = 2

Finished(status) == status \in {"success", "error"}

SimulatedDetail == "Simulated - API unavailable"

\* C17: when detectDeepfake or checkPlagiarism returned a simulated result,
\* the step shown to the progress observer has status error and the detail
\* 'Simulated - API unavailable', never status success.
C17_SimulatedIsSurfaced ==
    \A r \in Runs :
        /\ (Finished(StepStatus(steps[r], "ai")) /\ loc[r].aiResult.simulated) =>
              /\ StepStatus(observed[r], "ai") = "error"
              /\ StepDetail(observed[r], "ai") = SimulatedDetail
        /\ (Finished(StepStatus(steps[r], "plagiarism"))
                /\ loc[r].plagiarismResult.simulated) =>
              /\ StepStatus(observed[r], "plagiarism") = "error"
              /\ StepDetail(observed[r], "plagiarism") = SimulatedDetail

C17_Witness ==
    \E r \in Runs :
        /\ pc[r] = "done" /\ outcome[r].kind = "returned"
        /\ loc[r].aiResult.simulated /\ ~loc[r].plagiarismResult.simulated
        /\ loc[r].imageBase64 # ""
        /\ StepDetail(observed[r], "ai") = SimulatedDetail
        /\ StepStatus(observed[r], "plagiarism") = "success"

OkJson(resp) ==
    resp.kind = "http" /\ resp.status >= 200 /\ resp.status < 300 /\ resp.body = "json"

OracleReturned == libCall.fn \in {"detectDeepfake", "checkPlagiarism"} /\ libCall.done

\* C18: on empty input, a timeout, a transport error, a status outside 2xx or
\* a body that does not parse, detectDeepfake and checkPlagiarism return a
\* result with simulated = true; a result with simulated = false comes only
\* from a 2xx response whose body does not set simulated to true.
C18_OracleFallsBackToSimulated ==
    OracleReturned =>
        LET a == libCall.args
            res == libCall.result
        IN  /\ (a.imageBase64 = "" \/ a.resp.kind \in {"timeout", "error"}
                    \/ a.resp.status < 200 \/ a.resp.status >= 300
                    \/ a.resp.body # "json") => res.simulated = TRUE
            /\ res.simulated = FALSE =>
                  /\ a.imageBase64 # ""
                  /\ OkJson(a.resp)
                  /\ ~a.resp.simulated

C18_Witness ==
    /\ libCall.fn = "detectDeepfake" /\ libCall.done
    /\ libCall.args.imageBase64 # ""
    /\ libCall.args.resp.kind = "timeout"
    /\ libCall.result.simulated
    /\ libCall.result.deepfakeScore = Round2(libCall.args.d)

\* C19: every result of checkPlagiarism has isOriginal = (matchPercentage < 20).
C19_IsOriginalBelow20 ==
    (libCall.fn = "checkPlagiarism" /\ libCall.done) =>
        (libCall.result.isOriginal <=> libCall.result.matchPercentage < 20)

WatermarkTags == {"ID: " \o w : w \in WatermarkIds}

WatermarkFrame(r) ==
    (pc[r] = "watermark" /\ pc'[r] # "watermark") =>
        /\ pc'[r] = "watermarked"
        /\ StepStatus(observed'[r], "watermark") = "success"
        /\ StepDetail(observed'[r], "watermark") \in WatermarkTags
        /\ record[r].fileType = "video" => record'[r] = record[r]
        /\ record[r].fileType = "image" =>
              record'[r] = [record[r] EXCEPT !.watermarkedUri = record'[r].watermarkedUri]

WatermarkedUriByType ==
    \A r \in Runs :
        Started(r) =>
            /\ record[r].fileType = "video" =>
                  /\ record[r].watermarkedUri = NULL
                  /\ Stored(r) => db[record[r].id].watermarkedUri = NULL
            /\ (record[r].fileType = "image"
                    /\ StepStatus(steps[r], "watermark") = "success") =>
                  /\ record[r].watermarkedUri # NULL
                  /\ (pc[r] = "done" /\ outcome[r].kind = "returned") =>
                        db[record[r].id].watermarkedUri # NULL

\* C20: the watermark stage changes the record of an image run only: in a
\* video run watermarkedUri stays null up to the stored record, and the
\* watermark step still ends success with an invisible-watermark id; in an
\* image run the stage sets watermarkedUri to a URI.
C20_WatermarkOnlyImages ==
    /\ []WatermarkedUriByType
    /\ [][\A r \in Runs : WatermarkFrame(r)]_vars

C20_Witness ==
    \E r \in Runs :
        /\ pc[r] = "done" /\ outcome[r].kind = "returned"
        /\ record[r].fileType = "video"
        /\ db[record[r].id].watermarkedUri = NULL
        /\ db[record[r].id].status = "verified"
        /\ StepStatus(observed[r], "watermark") = "success"
        /\ StepDetail(observed[r], "watermark") \in WatermarkTags

FinishedStatuses == {"success", "error"}

\* the steps before a running step are finished, those after it wait, and no
\* step is finished or running after a waiting one
InOrder(s) ==
    \A i \in DOMAIN s :
        /\ s[i].status = "running" =>
              /\ \A j \in 1..(i - 1) : s[j].status \in FinishedStatuses
              /\ \A j \in (i + 1)..Len(s) : s[j].status = "waiting"
        /\ s[i].status = "waiting" =>
              \A j \in (i + 1)..Len(s) : s[j].status = "waiting"

\* the places where an external call of a run is pending
CallPcs == {"anchor", "detect", "plagiarism", "upload"}

\* the order of the places of runVerificationPipeline in its text
PcOrder ==
    <<"idle", "insert", "hash", "sleep1", "sign", "sleep2", "anchor", "sleep3",
      "readImage", "detect", "sleep4", "plagiarism", "sleep5", "trust", "sleep6",
      "watermark", "watermarked", "thumbnail", "upload", "finalWrite",
      "failWrite", "done">>

PcRank(p) == CHOOSE i \in DOMAIN PcOrder : PcOrder[i] = p

\* C21: the stages of a run execute one after the other in the fixed order: a
\* step becomes running only when every earlier step is success or error and
\* every later step waits, no step is skipped, a run never goes back to an
\* earlier place, and so the anchor call, each oracle call and the cloud sync
\* are started at most once per run.
C21_StagesSequentialCallsOnce ==
    /\ [](\A r \in Runs : Started(r) => InOrder(steps[r]) /\ InOrder(observed[r]))
    /\ [][\A r \in Runs :
            /\ pc'[r] # pc[r] => PcRank(pc'[r]) > PcRank(pc[r])
            /\ pc'[r] \in CallPcs => pc[r] \notin CallPcs \/ pc'[r] = pc[r]
            /\ \A i \in DOMAIN steps[r] :
                  (steps[r][i].status # "running" /\ steps'[r][i].status = "running") =>
                      /\ \A j \in 1..(i - 1) : steps[r][j].status \in FinishedStatuses
                      /\ \A j \in i..Len(steps[r]) : steps[r][j].status = "waiting"]_vars

C21_Witness ==
    \E r \in Runs :
        /\ pc[r] = "upload"
        /\ anchorCause[r] # "none"
        /\ loc[r].aiResult # NoAiResult
        /\ loc[r].plagiarismResult # NoPlagiarismResult
        /\ StepStatus(steps[r], "cloud") = "running"
        /\ \A i \in 1..7 : steps[r][i].status \in FinishedStatuses

\* C25: whenever the stored record of a run is verified, none of the run's 8
\* steps is waiting or running, the hash, sign, trust and watermark steps are
\* success, the stored digest and signature are not empty, and the stored
\* trustGrade is the grade getGrade gives to the stored trustScore.
C25_VerifiedRecordComplete ==
    \A r \in Runs :
        (Stored(r) /\ db[record[r].id].status = "verified") =>
            LET row == db[record[r].id] IN
            /\ Len(steps[r]) = 8
            /\ \A i \in DOMAIN steps[r] : steps[r][i].status \in FinishedStatuses
            /\ \A s \in {"hash", "sign", "trust", "watermark"} :
                  StepStatus(steps[r], s) = "success"
            /\ row.fileHash # "" /\ row.signature # ""
            /\ row.trustGrade = getGrade(row.trustScore)

C25_Witness ==
    \E r \in Runs :
        /\ pc[r] = "done" /\ outcome[r].kind = "returned"
        /\ db[record[r].id].status = "verified"
        /\ db[record[r].id].fileHash = Digest(record[r].fileUri)
        /\ StepStatus(steps[r], "blockchain") = "success"
        /\ StepStatus(steps[r], "cloud") = "error"

\* the factors of an unanchored run with every penalty, and with none
WorstFactors ==
    [hashVerified |-> TRUE, signatureValid |-> TRUE, blockchainAnchored |-> FALSE,
     deepfakeScore |-> 1000, aiGeneratedScore |-> 1000, plagiarismScore |-> 100,
     hasMetadata |-> TRUE]

BestUnanchoredFactors ==
    [hashVerified |-> TRUE, signatureValid |-> TRUE, blockchainAnchored |-> FALSE,
     deepfakeScore |-> 0, aiGeneratedScore |-> 0, plagiarismScore |-> 0,
     hasMetadata |-> TRUE]

\* C26: once the anchor stage is over, the anchored factor handed to
\* computeTrustScore is true exactly when the record's blockchainTx is not
\* null, and the hash, signature and metadata factors are true; the trust
\* result is the score of these factors; so a verified record with a null
\* blockchainTx has trustScore <= 92 and a grade other than S, and every
\* verified record has trustScore >= 2 (92 and 2 are the scores of the
\* unanchored factors without and with every penalty).
C26_AnchoredFactorMatchesTx ==
    /\ computeTrustScore(BestUnanchoredFactors).score = 92
    /\ computeTrustScore(WorstFactors).score = 2
    /\ \A r \in Runs :
        /\ (Started(r) /\ StepStatus(steps[r], "blockchain") \in FinishedStatuses) =>
              /\ TrustFactors(r).blockchainAnchored <=> record[r].blockchainTx # NULL
              /\ TrustFactors(r).hashVerified
              /\ TrustFactors(r).signatureValid
              /\ TrustFactors(r).hasMetadata
        /\ (Started(r) /\ StepStatus(steps[r], "trust") = "success") =>
              /\ loc[r].trustResult = computeTrustScore(TrustFactors(r))
              /\ record[r].trustScore = loc[r].trustResult.score
        /\ (Stored(r) /\ db[record[r].id].status = "verified") =>
              LET row == db[record[r].id] IN
              /\ row.trustScore >= 2
              /\ row.blockchainTx = NULL =>
                    row.trustScore <= 92 /\ row.trustGrade # "S"

C26_Witness ==
    \E r \in Runs :
        /\ pc[r] = "done" /\ Stored(r)
        /\ db[record[r].id].status = "verified"
        /\ db[record[r].id].blockchainTx = NULL
        /\ ~TrustFactors(r).blockchainAnchored
        /\ db[record[r].id].trustScore < 92

\* the stored row of a run that has written nothing but the initial insert
StoredInitial(r) ==
    db[record[r].id] = InitialRecord(record[r].id, record[r].fileUri, record[r].fileType)

\* C27: no intermediate result is stored: storage changes only when the
\* initial insert, the final write or the failure write settles; from the
\* insert to the terminal write the stored row is the initial record; the
\* failure write changes the status only, so a stored failed record has an
\* empty digest and signature, a null transaction and zero scores, whatever
\* the run had computed.
C27_NoIntermediateWrites ==
    /\ [](\A r \in Runs :
            /\ (Stored(r) /\ pc[r] # "done") => StoredInitial(r)
            /\ (Stored(r) /\ db[record[r].id].status = "failed") =>
                  LET row == db[record[r].id] IN
                  /\ row = [InitialRecord(record[r].id, record[r].fileUri,
                                          record[r].fileType)
                               EXCEPT !.status = "failed"]
                  /\ row.fileHash = "" /\ row.signature = ""
                  /\ row.blockchainTx = NULL
                  /\ row.aiDeepfakeScore = 0 /\ row.aiGeneratedScore = 0
                  /\ row.plagiarismScore = 0 /\ row.trustScore = 0)
    /\ [][db' # db =>
            \E r \in Runs :
                /\ pc[r] \in {"insert", "finalWrite", "failWrite"}
                /\ pc[r] = "failWrite" =>
                      db' = [db EXCEPT ![record[r].id].status = "failed"]]_vars

C27_Witness ==
    \E r \in Runs :
        /\ pc[r] = "done" /\ caught[r] = "DbError"
        /\ record[r].fileHash # "" /\ record[r].signature # ""
        /\ record[r].blockchainTx # NULL
        /\ db[record[r].id].status = "failed"
        /\ db[record[r].id].blockchainTx = NULL

\* the step that runs when a stage raises the error
FailedStep(error) == IF error = "ReadError" THEN "hash" ELSE "sign"

\* C28: when a stage raises a fatal exception while its step is running, the
\* catch clause hands no further list to the observer: from then on the last
\* list shows that step running, the steps before it finished, the steps
\* after it waiting, and no step in error.
C28_FatalPathLeavesStepRunning ==
    /\ [](\A r \in Runs :
            caught[r] \in StageErrors =>
                /\ StepStatus(observed[r], FailedStep(caught[r])) = "running"
                /\ InOrder(observed[r])
                /\ \A i \in DOMAIN observed[r] : observed[r][i].status # "error"
                /\ steps[r] = observed[r])
    /\ [][\A r \in Runs :
            caught'[r] # NULL => observed'[r] = observed[r] /\ steps'[r] = steps[r]]_vars

C28_Witness ==
    \E r \in Runs :
        /\ pc[r] = "done" /\ caught[r] = "ReadError"
        /\ outcome[r] = [kind |-> "threw", error |-> "ReadError"]
        /\ StepStatus(observed[r], "hash") = "running"
        /\ StepStatus(observed[r], "sign") = "waiting"

\* C29: the cloud sync comes before the record is marked verified: every row
\* of the cloud table has status verifying; the table changes only while
\* uploadProofToSupabase is pending, by a row made of the record that is still
\* verifying; and it never changes once the record is verified.
C29_CloudRowIsVerifying ==
    /\ [](\A id \in DOMAIN cloud : cloud[id].status = "verifying")
    /\ [][/\ cloud' # cloud =>
                \E r \in Runs :
                    /\ pc[r] = "upload" /\ record[r].status = "verifying"
                    /\ record'[r].status = "verified"
                    /\ record[r].id \notin DOMAIN cloud
                    /\ cloud' = [i \in DOMAIN cloud \cup {record[r].id} |->
                                    IF i = record[r].id THEN SupabaseProof(record[r])
                                    ELSE cloud[i]]
          /\ \A r \in Runs : record[r].status = "verified" => cloud' = cloud]_vars

C29_Witness ==
    \E r \in Runs :
        /\ pc[r] = "done" /\ outcome[r].kind = "returned"
        /\ loc[r].cloudSynced
        /\ db[record[r].id].status = "verified"
        /\ record[r].id \in DOMAIN cloud
        /\ cloud[record[r].id].status = "verifying"
        /\ cloud[record[r].id].trust_score = record[r].trustScore

\* C30: in the gallery scanner the stored originalHash of an asset is the one
\* of its first insert: no step of scanGalleryForNewImages or reverifyImage
\* changes it or removes the row, and an insert for an assetId that has a row
\* changes nothing; and every stored row has isTampered equal to
\* (currentHash # originalHash).
C30_OriginalHashFixed ==
    /\ [](\A a \in DOMAIN scannedImages :
            scannedImages[a].isTampered =
                (scannedImages[a].currentHash # scannedImages[a].originalHash))
    /\ [][/\ \A a \in DOMAIN scannedImages :
                /\ a \in DOMAIN scannedImages'
                /\ scannedImages'[a].originalHash = scannedImages[a].originalHash
          /\ \A c \in ScanCalls :
                (scanner[c].pc = "insert" /\ scanner'[c] # scanner[c]
                    /\ isAssetScanned(CurrentAsset(c))) =>
                    scannedImages' = scannedImages
          /\ \A c \in ScanCalls :
                (scanner[c].pc = "update" /\ scanner'[c] # scanner[c]
                    /\ scannedImages' # scannedImages) =>
                    LET row == scannedImages'[CurrentAsset(c)] IN
                    /\ row.currentHash = scanner[c].hash
                    /\ row.isTampered = (scanner[c].hash # row.originalHash)]_vars

C30_Witness ==
    \E a \in DOMAIN scannedImages :
        /\ scannedImages[a].isTampered
        /\ scannedImages[a].originalHash = Digest("bytes-1")
        /\ scannedImages[a].currentHash = Digest("bytes-2")
        /\ \E c \in ScanCalls :
              /\ scanner[c].fn = "scan" /\ scanner[c].pc = "insert"
              /\ CurrentAsset(c) = a
              /\ scanner[c].hash = Digest("bytes-2")

\* a call of startVerification that has not settled
InFlight(r) == pc[r] \notin {"idle", "settled"}

\* C22: with runs interleaved, no two runs write the same record id, and the
\* stored record of a run that returned is the record that run computed.
C22_RunsWriteOwnRecord ==
    /\ \A r1, r2 \in ConcRuns :
          (r1 # r2 /\ Started(r1) /\ Started(r2)) => record[r1].id # record[r2].id
    /\ \A r \in ConcRuns :
          (pc[r] \in {"done", "settled"} /\ outcome[r].kind = "returned") =>
              Stored(r) /\ db[record[r].id] = record[r]

\* C24: overlapping calls of startVerification do not interfere through the
\* store: while a call is in flight, no step of another call changes the
\* verification the store shows, and the store shows isRunning false only
\* when no call is in flight.
C24_VerificationsDoNotInterfere ==
    /\ []((currentVerification.present /\ ~currentVerification.isRunning) =>
            \A r \in ConcRuns : ~InFlight(r))
    /\ [][\A r \in ConcRuns :
            (InFlight(r) /\ pc'[r] = pc[r] /\ currentVerification'.present) =>
                currentVerification' = currentVerification]_vars

\* C23: every run that was started eventually terminates, also when an
\* external service never answers.
C23_EveryRunTerminates ==
    \A r \in Runs : Started(r) ~> (pc[r] = "done")

====
